---- MODULE Spec2Model ----
(***************************************************************************)
(* Model of optional-neo (optional.ts): the two Optional variants Empty    *)
(* and Some, the constructors some / fromNullable / empty, and the         *)
(* combinators cleanOptional, group and instanceOfOptional.                *)
(*                                                                         *)
(* JavaScript objects have identity, so all objects live in a heap: a      *)
(* sequence of cells, an object's address being its index.  `new` appends  *)
(* a cell.  heap[1] is the module-level constant `empty`.                  *)
(***************************************************************************)
EXTENDS Integers, Sequences, FiniteSets, TLC

VARIABLES heap, res

vars == <<heap, res>>

\* ------------------------------------------------------------------ bounds
\* Largest number of heap cells once the method calls have allocated theirs.
MaxHeap == 4
\* Largest number of heap cells client code builds with the constructors
\* before it calls a method or a combinator.
MaxBuilt == 3
\* Largest number of fields of the mapping passed to group.
MaxFields == 2

\* ------------------------------------------------------------------ values
\* A JavaScript value: a primitive, or a reference to a heap cell.
Null == [t |-> "null", n |-> 0]
Undefined == [t |-> "undefined", n |-> 0]
Num(k) == [t |-> "number", n |-> k]
EmptyString == [t |-> "string", n |-> 0]
Bool(b) == [t |-> "boolean", n |-> IF b THEN 1 ELSE 0]
Symbol == [t |-> "symbol", n |-> 0]
BigInt(k) == [t |-> "bigint", n |-> k]
Ref(a) == [t |-> "ref", n |-> a]

\* The primitives client code passes in: the two null-like values, the falsy
\* non-null values 0 and "", and the truthy 1.
Prims == {Null, Undefined, EmptyString, Num(0), Num(1)}
Refs(h) == {Ref(a) : a \in 1..Len(h)}
Vals(h) == Prims \cup Refs(h)

\* `===` on values other than NaN: same primitive, or same object.
StrictEq(v, w) == v = w

\* ------------------------------------------------------------------ heap cells
NoProps == [k \in {} |-> Undefined]
EmptyObj == [cls |-> "Empty", value |-> Undefined, props |-> NoProps]
SomeObj(v) == [cls |-> "Some", value |-> v, props |-> NoProps]
PlainObj(p) == [cls |-> "Object", value |-> Undefined, props |-> p]
FunctionObj(p) == [cls |-> "Function", value |-> Undefined, props |-> p]

\* The address of the exported constant `empty`.
empty == 1

IsOptional(h, v) == v.t = "ref" /\ h[v.n].cls \in {"Empty", "Some"}
Optionals(h) == {a \in 1..Len(h) : h[a].cls \in {"Empty", "Some"}}

\* What a call leaves behind: the heap after it, the returned value, the
\* argument tuples with which the caller's callbacks were invoked, in order,
\* and the Object.assign calls made, each as [target, key, value].
RetA(h, v, c, a) == [h |-> h, ret |-> v, calls |-> c, assigned |-> a]
Ret(h, v, c) == RetA(h, v, c, << >>)

\* ------------------------------------------------------------------ callbacks
\* Functions are data: a name, a captured value and a captured string (the
\* comparator's name in the closure of Some.isEqual, the key in those of group).
Fn(name, c) == [name |-> name, c |-> c, tag |-> ""]
NoFunc == Fn("undefined", Undefined)

\* The comparators client code passes to isEqual.
Apply2(cmp, v, w) ==
  CASE cmp = "sameType" -> Bool(v.t = w.t)
    [] cmp = "never" -> Bool(FALSE)
    [] OTHER -> Bool(TRUE)

\* JavaScript truthiness.
Truthy(v) ==
  CASE v.t \in {"null", "undefined"} -> FALSE
    [] v.t \in {"number", "boolean", "string"} -> v.n # 0
    [] OTHER -> TRUE

\* The invocations of a caller-supplied function that one application makes.
CallsOf(func, v) ==
  CASE func.name = "isEqual" -> IF func.tag # "" THEN << <<func.c, v>> >> ELSE << >>
    [] func.name \in {"groupChain", "groupMap"} -> << >>
    [] OTHER -> << <<v>> >>

\* func(v): defined below, once the methods its closures call are.
RECURSIVE Apply(_, _, _)

\* ------------------------------------------------------------------ class Empty
Empty_isPresent(h, self) == Ret(h, Bool(FALSE), << >>)

Empty_isEmpty(h, self) == Ret(h, Bool(TRUE), << >>)

Empty_map(h, self, func) == Ret(h, Ref(self), << >>)

Empty_chain(h, self, func) == Ret(h, Ref(self), << >>)

Empty_filter(h, self, func) == Ret(h, Ref(self), << >>)

Empty_getOrNull(h, self) == Ret(h, Null, << >>)

Empty_getOrUndefined(h, self) == Ret(h, Undefined, << >>)

Empty_getOrElse(h, self, defaultValue) == Ret(h, defaultValue, << >>)

Empty_backUp(h, self, another) == Ret(h, Ref(another), << >>)

\* ------------------------------------------------------------------ class Some
Some_isPresent(h, self) == Ret(h, Bool(TRUE), << >>)

Some_isEmpty(h, self) == Ret(h, Bool(FALSE), << >>)

\* Some.map with a null check on the mapped value, as fromNullable makes.
Some_map_nullChecked(h, self, func) ==
  LET r == Apply(h, func, h[self].value)
      h2 == Append(r.h, SomeObj(r.ret))
  IN  IF r.ret = Null \/ r.ret = Undefined
      THEN RetA(r.h, Ref(empty), r.calls, r.assigned)
      ELSE RetA(h2, Ref(Len(h2)), r.calls, r.assigned)

\* new Some(func(this.value))
Some_map(h, self, func) ==
  LET r == Apply(h, func, h[self].value)
      h2 == Append(r.h, SomeObj(r.ret))
  IN  RetA(h2, Ref(Len(h2)), r.calls, r.assigned)

\* Some.filter with the two branches of the conditional swapped.
Some_filter_swapped(h, self, func) ==
  LET r == Apply(h, func, h[self].value)
      h2 == Append(r.h, EmptyObj)
  IN  IF Truthy(r.ret)
      THEN RetA(h2, Ref(Len(h2)), r.calls, r.assigned)
      ELSE RetA(r.h, Ref(self), r.calls, r.assigned)

\* func(this.value) ? this : new Empty<never>()
Some_filter(h, self, func) ==
  LET r == Apply(h, func, h[self].value)
      h2 == Append(r.h, EmptyObj)
  IN  IF Truthy(r.ret)
      THEN RetA(r.h, Ref(self), r.calls, r.assigned)
      ELSE RetA(h2, Ref(Len(h2)), r.calls, r.assigned)

\* Some.chain wrapping the callback's result, as map does.
Some_chain_wrapping(h, self, func) ==
  LET r == Apply(h, func, h[self].value)
      h2 == Append(r.h, SomeObj(r.ret))
  IN  RetA(h2, Ref(Len(h2)), r.calls, r.assigned)

\* func(this.value)
Some_chain(h, self, func) == Apply(h, func, h[self].value)

Some_getOrNull(h, self) == Ret(h, h[self].value, << >>)

Some_getOrUndefined(h, self) == Ret(h, h[self].value, << >>)

Some_getOrElse(h, self, defaultValue) == Ret(h, h[self].value, << >>)

\* Some.backUp returning its argument, as Empty.backUp does.
Some_backUp_another(h, self, another) == Ret(h, Ref(another), << >>)

Some_backUp(h, self, another) == Ret(h, Ref(self), << >>)

\* ------------------------------------------------------------------ dispatch
\* o.m(...) runs the method of o's class.
isPresent(h, o) ==
  IF h[o].cls = "Some" THEN Some_isPresent(h, o) ELSE Empty_isPresent(h, o)

isEmpty(h, o) ==
  IF h[o].cls = "Some" THEN Some_isEmpty(h, o) ELSE Empty_isEmpty(h, o)

map(h, o, func) ==
  IF h[o].cls = "Some" THEN Some_map(h, o, func) ELSE Empty_map(h, o, func)

chain(h, o, func) ==
  IF h[o].cls = "Some" THEN Some_chain(h, o, func) ELSE Empty_chain(h, o, func)

filter(h, o, func) ==
  IF h[o].cls = "Some" THEN Some_filter(h, o, func) ELSE Empty_filter(h, o, func)

getOrNull(h, o) ==
  IF h[o].cls = "Some" THEN Some_getOrNull(h, o) ELSE Empty_getOrNull(h, o)

getOrUndefined(h, o) ==
  IF h[o].cls = "Some" THEN Some_getOrUndefined(h, o) ELSE Empty_getOrUndefined(h, o)

getOrElse(h, o, defaultValue) ==
  IF h[o].cls = "Some" THEN Some_getOrElse(h, o, defaultValue)
  ELSE Empty_getOrElse(h, o, defaultValue)

backUp(h, o, another) ==
  IF h[o].cls = "Some" THEN Some_backUp(h, o, another) ELSE Empty_backUp(h, o, another)

\* ------------------------------------------------------------------ closures
\* Object.assign replacing the target's properties instead of adding to them.
Object_assign_replacing(h, target, key, value) ==
  LET h2 == Append(h, PlainObj([k \in {key} |-> value]))
  IN  RetA([h2 EXCEPT ![target].props = h2[Len(h2)].props], Ref(target), << >>,
           << [target |-> target, key |-> key, value |-> value] >>)

\* Object.assign(target, { [key]: value }): the object literal is a new
\* object, its own property is copied onto target, and target is returned.
Object_assign(h, target, key, value) ==
  LET h2 == Append(h, PlainObj([k \in {key} |-> value]))
      src == h2[Len(h2)].props
      old == h2[target].props
      new == [k \in DOMAIN old \cup DOMAIN src |->
                IF k \in DOMAIN src THEN src[k] ELSE old[k]]
  IN  RetA([h2 EXCEPT ![target].props = new], Ref(target), << >>,
           << [target |-> target, key |-> key, value |-> value] >>)

\* (anotherValue) => compareFunc ? compareFunc(this.value, anotherValue)
\*                                : this.value === anotherValue
isEqualLambda(h, func, anotherValue) ==
  IF func.tag # ""
  THEN Ret(h, Apply2(func.tag, func.c, anotherValue), CallsOf(func, anotherValue))
  ELSE Ret(h, Bool(StrictEq(func.c, anotherValue)), << >>)

\* (value) => Object.assign(complete, { [key]: value })
groupMapLambda(h, func, value) == Object_assign(h, func.c.n, func.tag, value)

\* (complete) => optionalValue.map((value) => Object.assign(complete, ...))
groupChainLambda(h, func, complete) ==
  map(h, func.c.n, [name |-> "groupMap", c |-> complete, tag |-> func.tag])

Apply(h, func, v) ==
  CASE func.name = "id" -> Ret(h, v, CallsOf(func, v))
    [] func.name = "const" -> Ret(h, func.c, CallsOf(func, v))
    [] func.name = "flip" ->
         Ret(h, IF v.t = "number" THEN Num(1 - v.n) ELSE v, CallsOf(func, v))
    [] func.name = "isNumber" -> Ret(h, Bool(v.t = "number"), CallsOf(func, v))
    [] func.name = "isEqual" -> isEqualLambda(h, func, v)
    [] func.name = "groupMap" -> groupMapLambda(h, func, v)
    [] func.name = "groupChain" -> groupChainLambda(h, func, v)
    [] OTHER -> Ret(h, Undefined, << >>)

\* ------------------------------------------------------------------ isEqual
\* another.isEmpty()
Empty_isEqual(h, self, another, compareFunc) == isEmpty(h, another)

\* Some.isEqual defaulting to true when the other Optional is empty.
Some_isEqual_orElseTrue(h, self, another, compareFunc) ==
  LET lambda == [name |-> "isEqual", c |-> h[self].value, tag |-> compareFunc]
      m == map(h, another, lambda)
      g == getOrElse(m.h, m.ret.n, Bool(TRUE))
  IN  Ret(g.h, g.ret, m.calls)

\* another.map((anotherValue) => ...).getOrElse(false)
\* compareFunc is the comparator's name, "" when the argument is left out.
Some_isEqual(h, self, another, compareFunc) ==
  LET lambda == [name |-> "isEqual", c |-> h[self].value, tag |-> compareFunc]
      m == map(h, another, lambda)
      g == getOrElse(m.h, m.ret.n, Bool(FALSE))
  IN  Ret(g.h, g.ret, m.calls)

isEqual(h, o, another, compareFunc) ==
  IF h[o].cls = "Some" THEN Some_isEqual(h, o, another, compareFunc)
  ELSE Empty_isEqual(h, o, another, compareFunc)

\* ------------------------------------------------------------------ constructors
\* new Some<T>(value)
some(h, value) ==
  LET h2 == Append(h, SomeObj(value)) IN Ret(h2, Ref(Len(h2)), << >>)

\* fromNullable testing truthiness instead of null and undefined.
fromNullable_falsy(h, value) ==
  IF ~Truthy(value) THEN Ret(h, Ref(empty), << >>) ELSE some(h, value)

\* value === null || value === undefined ? empty : some(value)
fromNullable(h, value) ==
  IF StrictEq(value, Null) \/ StrictEq(value, Undefined)
  THEN Ret(h, Ref(empty), << >>)
  ELSE some(h, value)

\* fromNullable(value.getOrUndefined())
cleanOptional(h, value) == fromNullable(h, getOrUndefined(h, value).ret)

\* () => empty
emptyFunction == Fn("const", Ref(empty))

\* ------------------------------------------------------------------ group
\* The property names client code uses: "0" and "1" are integer indices.
KeyNames == {"0", "1", "first", "second"}
IndexOf(key) == CASE key = "0" -> 0 [] key = "1" -> 1 [] OTHER -> -1

\* The mapping passed to group is an object literal: its fields as
\* <<key, Optional>> pairs in the order they were written.
FieldOf(partial, key) ==
  partial[CHOOSE i \in 1..Len(partial) : partial[i][1] = key][2]

\* The position of field i in Object.keys(partial): integer indices come first
\* in ascending order, then the other keys in insertion order.
KeyRank(partial, i) ==
  LET isIdx(j) == IndexOf(partial[j][1]) >= 0
  IN  IF isIdx(i)
      THEN 1 + Cardinality({j \in 1..Len(partial) :
                              isIdx(j) /\ IndexOf(partial[j][1]) < IndexOf(partial[i][1])})
      ELSE 1 + Cardinality({j \in 1..Len(partial) : isIdx(j) \/ (~isIdx(j) /\ j < i)})

\* Object.keys reporting the keys in insertion order whatever they are.
Object_keys_insertionOrder(partial) == [i \in 1..Len(partial) |-> partial[i][1]]

Object_keys(partial) ==
  [r \in 1..Len(partial) |->
     partial[CHOOSE i \in 1..Len(partial) : KeyRank(partial, i) = r][1]]

\* keys.reduce((acc, key) => acc.chain((complete) => partial[key].map(...)), acc)
\* from position i on; the Object.assign calls so far are carried along.
RECURSIVE reduce(_, _, _, _, _, _)
reduce(h, partial, keys, i, acc, assigned) ==
  IF i > Len(keys) THEN RetA(h, acc, << >>, assigned)
  ELSE LET key == keys[i]
           optionalValue == FieldOf(partial, key)
           r == chain(h, acc.n,
                      [name |-> "groupChain", c |-> Ref(optionalValue), tag |-> key])
       IN  reduce(r.h, partial, keys, i + 1, r.ret, assigned \o r.assigned)

\* const initial = {}; return Object.keys(partial).reduce(..., some(initial))
group(h, partial) ==
  LET h1 == Append(h, PlainObj(NoProps))
      s == some(h1, Ref(Len(h1)))
  IN  reduce(s.h, partial, Object_keys(partial), 1, s.ret, << >>)

\* ------------------------------------------------------------------ instanceOfOptional
\* The members of interface Optional, which both classes implement.
OptionalMembers ==
  {"map", "chain", "filter", "getOrNull", "getOrUndefined", "getOrElse",
   "isPresent", "isEmpty", "isEqual", "ifPresent", "ifAbsent", "backUp"}

\* typeof v
TypeOf(h, v) ==
  CASE v.t = "null" -> "object"
    [] v.t = "ref" -> IF h[v.n].cls = "Function" THEN "function" ELSE "object"
    [] OTHER -> v.t

\* field in object, for an object on the heap: its own properties and, for an
\* instance of Empty or Some, the methods of its class.
HasProperty(h, field, a) ==
  \/ field \in DOMAIN h[a].props
  \/ h[a].cls \in {"Empty", "Some"} /\ field \in OptionalMembers
  \/ h[a].cls = "Some" /\ field = "value"

\* The names the loop of instanceOfOptional goes through, in its order.
fields ==
  << "map", "chain", "filter", "getOrNull", "getOrUndefined", "getOrElse",
     "isPresent", "isEmpty", "isEqual", "ifAbsent", "ifPresent", "backUp" >>

\* for (const field of [...]) if (!(field in object)) return false; return true
RECURSIVE fieldLoop(_, _, _)
fieldLoop(h, object, i) ==
  IF i > Len(fields) THEN TRUE
  ELSE IF ~HasProperty(h, fields[i], object.n) THEN FALSE
  ELSE fieldLoop(h, object, i + 1)

instanceOfOptional(h, object) ==
  IF TypeOf(h, object) # "object" THEN Ret(h, Bool(FALSE), << >>)
  ELSE IF object = Null \/ object = Undefined THEN Ret(h, Bool(FALSE), << >>)
  ELSE Ret(h, Bool(fieldLoop(h, object, 1)), << >>)

\* ------------------------------------------------------------------ calls
\* The callbacks and comparators a caller passes in.
Funcs == {Fn("id", Undefined), Fn("flip", Undefined), Fn("isNumber", Undefined),
          Fn("const", Null), Fn("const", Undefined), emptyFunction}
Comparators == {"", "sameType", "never"}

NoCall == [op |-> "init", self |-> 0, arg |-> Undefined, fn |-> NoFunc, cmp |-> "",
           partial |-> << >>, ret |-> Undefined, calls |-> << >>, assigned |-> << >>,
           len0 |-> 1]

\* One call from client code: its arguments, what it returned, the callback
\* invocations it made and the heap size it started from.
Record(op, self, arg, fn, cmp, partial, r) ==
  /\ heap' = r.h
  /\ res' = [op |-> op, self |-> self, arg |-> arg, fn |-> fn, cmp |-> cmp,
             partial |-> partial, ret |-> r.ret, calls |-> r.calls,
             assigned |-> r.assigned, len0 |-> Len(heap)]

Do(op, self, arg, fn, cmp, r) ==
  /\ Len(r.h) <= MaxHeap
  /\ Record(op, self, arg, fn, cmp, << >>, r)

\* Client code first builds values with the constructors and then evaluates one
\* fluent expression o.m1(..).m2(..)...: a method call is made on any Optional
\* built so far or, after a method call, on the Optional that call returned.
Building == res.op \in {"init", "some", "fromNullable", "object"}
Receivers ==
  IF Building THEN Optionals(heap)
  ELSE IF IsOptional(heap, res.ret) THEN {res.ret.n} ELSE {}

Init ==
  /\ heap = << EmptyObj >>
  /\ res = NoCall

CallSome ==
  /\ Building
  /\ Len(heap) < MaxBuilt
  /\ \E v \in Vals(heap) : Do("some", 0, v, NoFunc, "", some(heap, v))

CallFromNullable ==
  /\ Building
  /\ Len(heap) < MaxBuilt
  /\ \E v \in Vals(heap) : Do("fromNullable", 0, v, NoFunc, "", fromNullable(heap, v))

CallCleanOptional ==
  \E o \in Receivers :
    Do("cleanOptional", 0, Ref(o), NoFunc, "", cleanOptional(heap, o))

CallMap ==
  \E o \in Receivers, f \in Funcs :
    Do("map", o, Undefined, f, "", map(heap, o, f))

CallChain ==
  \E o \in Receivers, f \in Funcs :
    Do("chain", o, Undefined, f, "", chain(heap, o, f))

CallFilter ==
  \E o \in Receivers, f \in Funcs :
    Do("filter", o, Undefined, f, "", filter(heap, o, f))

CallBackUp ==
  \E o \in Receivers, a \in Optionals(heap) :
    Do("backUp", o, Ref(a), NoFunc, "", backUp(heap, o, a))

CallIsEqual ==
  \E o \in Receivers, a \in Optionals(heap), c \in Comparators :
    Do("isEqual", o, Ref(a), NoFunc, c, isEqual(heap, o, a, c))

CallGetOrNull ==
  \E o \in Receivers : Do("getOrNull", o, Undefined, NoFunc, "", getOrNull(heap, o))

CallGetOrUndefined ==
  \E o \in Receivers :
    Do("getOrUndefined", o, Undefined, NoFunc, "", getOrUndefined(heap, o))

CallGetOrElse ==
  \E o \in Receivers, d \in Prims :
    Do("getOrElse", o, d, NoFunc, "", getOrElse(heap, o, d))

CallIsPresent ==
  \E o \in Receivers : Do("isPresent", o, Undefined, NoFunc, "", isPresent(heap, o))

CallIsEmpty ==
  \E o \in Receivers : Do("isEmpty", o, Undefined, NoFunc, "", isEmpty(heap, o))

\* The mappings client code can pass to group: at most MaxFields fields with
\* distinct keys, each an Optional built so far.
RECURSIVE Partials(_, _)
Partials(h, n) ==
  IF n = 0 THEN {<< >>}
  ELSE LET shorter == Partials(h, n - 1)
       IN  shorter \cup
           {Append(p, <<k, o>>) :
              p \in {q \in shorter : Len(q) = n - 1}, k \in KeyNames, o \in Optionals(h)}

DistinctKeys(p) == \A i, j \in 1..Len(p) : p[i][1] = p[j][1] => i = j

CallGroup ==
  /\ Building
  /\ \E partial \in {p \in Partials(heap, MaxFields) : DistinctKeys(p)} :
       Record("group", 0, Undefined, NoFunc, "", partial, group(heap, partial))

\* The values of the fields client code groups.
FieldValues == {Null, Num(0), Num(1)}

BuildField ==
  /\ Building
  /\ Len(heap) < MaxBuilt
  /\ \E v \in FieldValues : Do("some", 0, v, NoFunc, "", some(heap, v))

Next ==
  \/ CallSome
  \/ CallFromNullable
  \/ CallCleanOptional
  \/ CallMap
  \/ CallChain
  \/ CallFilter
  \/ CallBackUp
  \/ CallIsEqual
  \/ CallGetOrNull
  \/ CallGetOrUndefined
  \/ CallGetOrElse
  \/ CallIsPresent
  \/ CallIsEmpty

Spec == Init /\ [][Next]_vars

\* Client code building Optionals and grouping them.
NextGroup ==
  \/ BuildField
  \/ CallGroup

SpecGroup == Init /\ [][NextGroup]_vars

\* The property names of the objects client code writes itself: some, all or
\* all but one of the members of Optional, or the fields of a plain record.
OwnNames ==
  {{}, {"name", "hasCat"}, OptionalMembers, OptionalMembers \cup {"value"}}
    \cup {OptionalMembers \ {m} : m \in OptionalMembers}

\* An object literal, or a function given properties.
MakeObject ==
  /\ Building
  /\ Len(heap) < MaxBuilt
  /\ \E names \in OwnNames, callable \in BOOLEAN :
       LET props == [k \in names |-> Null]
           h2 == Append(heap, IF callable THEN FunctionObj(props) ELSE PlainObj(props))
       IN  Record("object", 0, Undefined, NoFunc, "", << >>,
                  Ret(h2, Ref(Len(h2)), << >>))

CallInstanceOfOptional ==
  \E v \in Vals(heap) \cup {Bool(TRUE), Bool(FALSE), Symbol, BigInt(1)} :
    Record("instanceOfOptional", 0, v, NoFunc, "", << >>, instanceOfOptional(heap, v))

\* Client code building Optionals and other objects and testing values.
NextInstance ==
  \/ CallSome
  \/ CallFromNullable
  \/ MakeObject
  \/ CallInstanceOfOptional

SpecInstance == Init /\ [][NextInstance]_vars

\* ------------------------------------------------------------------ properties
IsSome(h, v) == v.t = "ref" /\ v.n \in 1..Len(h) /\ h[v.n].cls = "Some"
IsEmptyOpt(h, v) == v.t = "ref" /\ v.n \in 1..Len(h) /\ h[v.n].cls = "Empty"
\* The call allocated nothing.
NoAlloc == Len(heap) = res.len0
\* The returned object was allocated by the call.
FreshRet == res.ret.t = "ref" /\ res.ret.n > res.len0 /\ res.ret.n <= Len(heap)

\* C1: fromNullable(x) is the shared constant `empty` exactly when x is null
\* or undefined; for every other x, falsy ones included, it is a Some that
\* holds exactly x.
C1_FromNullable ==
  res.op = "fromNullable" =>
    /\ heap[empty].cls = "Empty"
    /\ (res.ret = Ref(empty)) <=> (res.arg \in {Null, Undefined})
    /\ res.arg \notin {Null, Undefined} =>
         IsSome(heap, res.ret) /\ heap[res.ret.n].value = res.arg

C1_Witness ==
  /\ res.op = "fromNullable"
  /\ res.arg \in {Num(0), EmptyString}
  /\ IsSome(heap, res.ret)

\* C2: some(v).map(f) is a Some holding f(v), with no null check on f(v), and f
\* is invoked once with v; mapping the result with g gives the value that
\* some(g(f(v))) holds; Empty.map(f) returns the Empty and never invokes f.
C2_Map ==
  res.op = "map" =>
    IF heap[res.self].cls = "Some"
    THEN LET v == heap[res.self].value
             fv == Apply(heap, res.fn, v).ret
         IN  /\ IsSome(heap, res.ret)
             /\ heap[res.ret.n].value = fv
             /\ res.calls = << <<v>> >>
             /\ \A g \in {Fn("id", Undefined), Fn("flip", Undefined),
                          Fn("isNumber", Undefined), Fn("const", Null)} :
                  LET m == map(heap, res.ret.n, g)
                      s == some(heap, Apply(heap, g, fv).ret)
                  IN  /\ IsSome(m.h, m.ret)
                      /\ m.h[m.ret.n].value = s.h[s.ret.n].value
    ELSE /\ res.ret = Ref(res.self)
         /\ res.calls = << >>
         /\ NoAlloc

C2_Witness ==
  /\ res.op = "map"
  /\ heap[res.self].cls = "Some"
  /\ heap[res.self].value = Num(1)
  /\ res.fn = Fn("const", Null)
  /\ IsSome(heap, res.ret)
  /\ heap[res.ret.n].value = Null

\* C3: Some(v).chain(f) returns f(v) itself, wrapping nothing and allocating
\* nothing, so some(some(v)).chain(x => x) is the inner some(v); Empty.chain(f)
\* returns the Empty and never invokes f.
C3_Chain ==
  res.op = "chain" =>
    IF heap[res.self].cls = "Some"
    THEN LET v == heap[res.self].value
         IN  /\ res.ret = Apply(heap, res.fn, v).ret
             /\ res.calls = << <<v>> >>
             /\ NoAlloc
             /\ (res.fn.name = "id" /\ IsSome(heap, v)) => res.ret = v
    ELSE /\ res.ret = Ref(res.self)
         /\ res.calls = << >>
         /\ NoAlloc

C3_Witness ==
  /\ res.op = "chain"
  /\ heap[res.self].cls = "Some"
  /\ IsSome(heap, heap[res.self].value)
  /\ res.fn.name = "id"
  /\ res.ret = heap[res.self].value
  /\ res.ret # Ref(res.self)

\* C4: some(v).filter(p) returns the receiver itself when p(v) is truthy, and
\* a newly allocated Empty when it is not, every existing object (the receiver
\* included) being left as it was; Empty.filter(p) returns the receiver and
\* never evaluates p.
FilterStep ==
  res'.op = "filter" =>
    LET o == res'.self
    IN  /\ SubSeq(heap', 1, Len(heap)) = heap
        /\ IF heap[o].cls = "Some"
           THEN /\ res'.calls = << <<heap[o].value>> >>
                /\ IF Truthy(Apply(heap, res'.fn, heap[o].value).ret)
                   THEN res'.ret = Ref(o) /\ heap' = heap
                   ELSE /\ res'.ret.t = "ref"
                        /\ res'.ret.n \notin 1..Len(heap)
                        /\ res'.ret.n \in 1..Len(heap')
                        /\ heap'[res'.ret.n].cls = "Empty"
           ELSE /\ res'.ret = Ref(o)
                /\ res'.calls = << >>
                /\ heap' = heap

\* C4, as a property of every step: each call of filter is a FilterStep.
C4_Filter == [][FilterStep]_vars

C4_Witness ==
  /\ res.op = "filter"
  /\ heap[res.self].cls = "Some"
  /\ ~Truthy(Apply(heap, res.fn, heap[res.self].value).ret)
  /\ FreshRet
  /\ IsEmptyOpt(heap, res.ret)

\* C5: a.backUp(b) is a itself when a is a Some and b itself when a is Empty,
\* nothing being allocated or invoked; so getOrNull of the result is a's value
\* in the first case and, when b is some(B), B in the second.
C5_BackUp ==
  res.op = "backUp" =>
    LET a == res.self
        b == res.arg.n
    IN  /\ NoAlloc
        /\ res.calls = << >>
        /\ IF heap[a].cls = "Some"
           THEN /\ res.ret = Ref(a)
                /\ getOrNull(heap, res.ret.n).ret = heap[a].value
           ELSE /\ res.ret = Ref(b)
                /\ heap[b].cls = "Some" =>
                     getOrNull(heap, res.ret.n).ret = heap[b].value

C5_Witness ==
  /\ res.op = "backUp"
  /\ heap[res.self].cls = "Empty"
  /\ heap[res.arg.n].cls = "Some"
  /\ res.ret = res.arg

\* C6: a.isEqual(b, cmp) is true when both are Empty, false when exactly one is
\* (cmp is then never invoked), and for two Somes holding v and w it is
\* cmp(v, w) when cmp is given and v === w otherwise; without a comparator
\* a.isEqual(b) equals b.isEqual(a).
C6_IsEqual ==
  res.op = "isEqual" =>
    LET a == heap[res.self]
        b == heap[res.arg.n]
    IN  /\ (a.cls = "Empty" /\ b.cls = "Empty") => res.ret = Bool(TRUE)
        /\ (a.cls # b.cls) => res.ret = Bool(FALSE) /\ res.calls = << >>
        /\ (a.cls = "Some" /\ b.cls = "Some") =>
             IF res.cmp # ""
             THEN /\ res.ret = Apply2(res.cmp, a.value, b.value)
                  /\ res.calls = << <<a.value, b.value>> >>
             ELSE /\ res.ret = Bool(StrictEq(a.value, b.value))
                  /\ res.calls = << >>
        /\ res.cmp = "" => isEqual(heap, res.arg.n, res.self, "").ret = res.ret

C6_Witness ==
  /\ res.op = "isEqual"
  /\ res.self # res.arg.n
  /\ heap[res.self].cls = "Some"
  /\ heap[res.arg.n].cls = "Some"
  /\ heap[res.self].value # heap[res.arg.n].value
  /\ res.cmp = "sameType"
  /\ res.ret = Bool(TRUE)

\* C8: cleanOptional(opt) returns opt itself when opt is a Some whose payload is
\* neither null nor undefined, and an Empty otherwise.
C8_CleanOptional ==
  res.op = "cleanOptional" =>
    IF IsSome(heap, res.arg) /\ heap[res.arg.n].value \notin {Null, Undefined}
    THEN res.ret = res.arg
    ELSE IsEmptyOpt(heap, res.ret)

\* The keys of a mapping, and the same fields written in every other order.
KeysOf(p) == {p[i][1] : i \in 1..Len(p)}
Reorderings(p) ==
  {q \in [1..Len(p) -> {p[i] : i \in 1..Len(p)}] :
     {q[i] : i \in 1..Len(p)} = {p[i] : i \in 1..Len(p)}}
AnyAbsent(h, p) == \E i \in 1..Len(p) : h[p[i][2]].cls = "Empty"
\* The record group(p) must hold when every field is a Some.
Unwrapped(h, p) == [k \in KeysOf(p) |-> h[FieldOf(p, k)].value]
HoldsRecord(h, v, rec) ==
  /\ IsSome(h, v)
  /\ h[v.n].value.t = "ref"
  /\ h[h[v.n].value.n].cls = "Object"
  /\ h[h[v.n].value.n].props = rec

C10_AssignedOnlyIfReturned ==
  res.op = "group" =>
    \A i \in 1..Len(res.assigned) :
      /\ IsSome(heap, res.ret)
      /\ heap[res.ret.n].value = Ref(res.assigned[i].target)

\* The fields of p in the order of Object.keys(p).
Ranked(p) == [r \in 1..Len(p) |-> p[CHOOSE i \in 1..Len(p) : KeyRank(p, i) = r]]
\* How many fields precede the first Empty one in that order.
PresentPrefix(h, p) ==
  Cardinality({r \in 1..Len(p) : \A r2 \in 1..r : h[Ranked(p)[r2][2]].cls = "Some"})

\* C10 amended: group assigns onto the one record it creates exactly the fields
\* that precede the first Empty field in Object.keys order (integer indices
\* ascending, then the other keys in insertion order), in that order, and no
\* field at or after it; the result is a Some of that record when no field is
\* Empty, and otherwise the record, with what was assigned, is not returned.
C10_AssignedPrefix ==
  res.op = "group" =>
    LET p == res.partial
        n == PresentPrefix(heap, p)
        record == res.len0 + 1
    IN  /\ res.assigned =
             [r \in 1..n |-> [target |-> record, key |-> Ranked(p)[r][1],
                              value |-> heap[Ranked(p)[r][2]].value]]
        /\ heap[record].cls = "Object"
        /\ DOMAIN heap[record].props = {Ranked(p)[r][1] : r \in 1..n}
        /\ IF n = Len(p)
           THEN IsSome(heap, res.ret) /\ heap[res.ret.n].value = Ref(record)
           ELSE IsEmptyOpt(heap, res.ret)

C10_Witness ==
  /\ res.op = "group"
  /\ Len(res.assigned) > 0
  /\ IsEmptyOpt(heap, res.ret)
  /\ DOMAIN heap[res.len0 + 1].props # {}

\* v exposes the member: primitives carry none of the members of Optional.
Exposes(h, v, member) == v.t = "ref" /\ HasProperty(h, member, v.n)

\* C9: instanceOfOptional(x) is true exactly when x is a non-null value that
\* exposes every one of the twelve members of Optional, whatever produced it.
C9_InstanceOfOptional ==
  res.op = "instanceOfOptional" =>
    (res.ret = Bool(TRUE)) <=>
      /\ res.arg \notin {Null, Undefined}
      /\ \A member \in OptionalMembers : Exposes(heap, res.arg, member)

====
